---------------------------- MODULE Spec2Model ----------------------------
(***************************************************************************)
(* Catalog -> CMS synchronisation bridge.                                  *)
(*                                                                         *)
(*   CmsSyncService  (cms-sync.service.ts): bulk sweep                     *)
(*       syncAllEntitiesToCmsGeneric and the single-entity entrypoints     *)
(*       syncProductToCms / syncVariantToCms / syncCollectionToCms.        *)
(*   SanityService   (sanity.service.ts): the document publisher           *)
(*       syncProduct / syncProductVariant / syncCollection, its lookups,   *)
(*       transforms and makeSanityRequest.                                 *)
(*                                                                         *)
(* Every await of the code is a step boundary.  A single-entity sync call  *)
(* is a record in `calls`; the steps of different calls interleave freely. *)
(* The catalog platform and the remote store are external: what they       *)
(* answer to one query or request is an input of the step that receives    *)
(* the answer.                                                             *)
(***************************************************************************)
EXTENDS Integers, Sequences, FiniteSets, TLC

\* ------------------------------------------------------------ constants

\* const BATCH = 10 (wave size of the bulk sweep)
BATCH == 10

\* maxAttempts: 5 (attempt budget of every job)
maxAttempts == 5

\* private readonly rateLimitDelay = 20; // ms
rateLimitDelay == 20

\* Bounds of the model.
MaxEntities == 2      \* entities a bulk load returns; entity ids are 1..MaxEntities
MaxDocs     == 3      \* remote documents the store accepts before it rejects creates
MaxDirect   == 2      \* single-entity sync calls made by outside triggers in one behaviour
MaxCols     == 1      \* collections 1..MaxCols are those a variant may belong to
MaxCallers  == 3      \* makeSanityRequest calls that pass the throttle gate
MaxClock    == 45     \* the clock of the throttle runs from rateLimitDelay to MaxClock ms

\* The concrete sweep of 25 products of which #13 always fails remotely:
\* two full waves and a wave of five; the failing product is in the second wave.
ScenarioTotal   == 2 * BATCH + 5
ScenarioFailing == BATCH + 3
\* Responses of one wave of the scenario arrive at most this far out of order.
ScenarioWindow == 2

Kinds == {"Product", "ProductVariant", "Collection"}
Ops   == {"create", "update", "delete"}

\* const DOCUMENT_TYPE = { product, product_variant, collection }
DOCUMENT_TYPE(kind) ==
    CASE kind = "Product"        -> "vendureProduct"
      [] kind = "ProductVariant" -> "vendureProductVariant"
      [] kind = "Collection"     -> "vendureCollection"

EntityIds == 1..MaxEntities

\* the collections findCollectionsForVariant may answer
CollectionSets == SUBSET (1..MaxCols)

\* Call slots: slot i <= BATCH is the i-th job of the wave in flight;
\* the slots above are calls made directly by outside triggers.
SweepSlots  == 1..BATCH
DirectSlots == (BATCH + 1)..(BATCH + MaxDirect)

NoDoc == << >>        \* null / undefined remote identifier

VARIABLES
    docs,             \* the remote store: a set of documents
    minted,           \* the remote identifiers the store has given out so far
    calls,            \* the single-entity sync calls in progress or returned, by slot
    pc,               \* position of the bulk sweep
    kind,             \* entityType of the sweep
    jobs,             \* the Job objects of the sweep: index -> Job
    queue,            \* const queue: Job[]  (indices into jobs)
    batch,            \* const batch = queue.splice(0, BATCH)
    total,            \* entities.length
    successCount,
    errorCount,
    processed,
    errors,
    result,           \* what the bulk entrypoint returned
    loadOutcome,      \* how the initial bulk load ended: "none" | "ok" | "threw"
    waves,            \* sizes of the waves dispatched so far
    dispatched,       \* syncMethod invocations of the sweep
    remoteCalled,     \* whether a job of the sweep has made a remote request
    now,              \* Date.now(), in ms
    lastRequestTime,  \* SanityService.lastRequestTime
    reqs,             \* the makeSanityRequest calls at the throttle gate, by caller
    stage,            \* syncAllEntityTypes: 0 not called, 1..3 the sweep awaited, 4 returned
    summaries         \* what the sweeps that were awaited and have returned so far returned

vars == << docs, minted, calls, pc, kind, jobs, queue, batch, total, successCount,
           errorCount, processed, errors, result, loadOutcome, waves, dispatched,
           remoteCalled, now, lastRequestTime, reqs, stage, summaries >>

gateVars == << now, lastRequestTime, reqs >>

compVars == << stage, summaries >>

sweepVars == << pc, kind, queue, batch, total, successCount, errorCount, processed,
                errors, result, loadOutcome, waves, dispatched >>

\* ------------------------------------------------------------ catalog data

\* translation.name of an entity in the default language
Name(k, id) == << "name", k, id >>

\* variant.productId: the catalog's parent product of a variant
ParentOf(v) == (v % MaxEntities) + 1

\* The catalog of the sweeps over an unchanged catalog: what
\* getRepository(repository).find returns for kind k (products and variants
\* 1..MaxEntities, collections 1..MaxCols, each with a translation in the
\* default language)
CatalogCount(k) == IF k = "Collection" THEN MaxCols ELSE MaxEntities

\* findCollectionsForVariant in that catalog: the collections whose variant
\* ids include v
CollectionsOf(v) == { c \in 1..MaxCols : c < v }

\* the collections argument the entrypoint of a call of kind k passes on
CollectionsArg(k, id) == IF k = "ProductVariant" THEN CollectionsOf(id) ELSE {}

\* TranslationUtils.getSlugByLanguage: the slug of the translation in the given language
getSlugByLanguage(k, id) == << "slug", k, id >>

\* variantSlug of syncVariantToCms
VariantSlug(id) == getSlugByLanguage("Product", ParentOf(id)) \o << "-variant-", id >>

\* the slug the entrypoint passes to the publisher
EntrySlug(k, id) == IF k = "ProductVariant" THEN VariantSlug(id) ELSE getSlugByLanguage(k, id)

\* TranslationUtils.validateTranslations: throws when the language has no translation
validateTranslations(translated) == IF translated THEN "ok" ELSE "throw"

\* ------------------------------------------------------------ remote store

\* *[_type == "<type>" && vendureId == <id>]
Matching(type, vendureId) == { d \in docs : d._type = type /\ d.vendureId = vendureId }

\* "undefined" returned by a transform: nothing to push
NoData == [ _type |-> "skip", vendureId |-> 0, title |-> << >>, slug |-> [current |-> << >>],
            vendureProduct |-> NoDoc, vendureCollections |-> {} ]

\* transformProductData / transformCollectionData / transformVariantData: the
\* document fields, or NoData (undefined) when there is no translation.
transformData(k, id, translated, slug, parentRef, collRefs) ==
    IF ~translated THEN NoData
    ELSE [ _type    |-> DOCUMENT_TYPE(k),
           vendureId |-> id,
           title    |-> Name(k, id),
           slug     |-> [current |-> slug],
           vendureProduct     |-> IF k = "ProductVariant" THEN parentRef ELSE NoDoc,
           vendureCollections |-> IF k = "ProductVariant" THEN collRefs ELSE {} ]

\* The identifier the store gives to a new document: opaque and fresh.  It is
\* written << type, vendureId, n >> for the n-th document created with these
\* values, so that it does not depend on the order of unrelated creates.
FreshId(data) ==
    << data._type, data.vendureId,
       1 + Cardinality({ m \in minted : m[1] = data._type /\ m[2] = data.vendureId }) >>

\* { create: data }: the store gives the document a fresh identifier
CreateDoc(data) ==
    [ _id |-> FreshId(data), _type |-> data._type, vendureId |-> data.vendureId,
      title |-> data.title, slug |-> data.slug,
      vendureProduct |-> data.vendureProduct,
      vendureCollections |-> data.vendureCollections ]

\* { patch: { id, set: data } }: fields that are undefined are not serialised,
\* so a patch without parent reference leaves the stored reference as it is
PatchDoc(d, data) ==
    [ _id |-> d._id, _type |-> data._type, vendureId |-> data.vendureId,
      title |-> data.title, slug |-> data.slug,
      vendureProduct |-> IF data.vendureProduct = NoDoc THEN d.vendureProduct
                         ELSE data.vendureProduct,
      vendureCollections |-> data.vendureCollections ]

\* whether the store can apply the mutation: it rejects the patch of a
\* document that does not exist
RemoteCanApply(c) ==
    CASE c.mutation = "patch" -> \E d \in docs : d._id = c.existing
      [] OTHER                -> TRUE

\* the store accepts creates up to MaxDocs identifiers and rejects them afterwards
StoreHasRoom(c) == c.mutation = "create" => Cardinality(minted) < MaxDocs

\* the store after the mutation of call c
ApplyMutation(c) ==
    CASE c.mutation = "create" -> docs \cup { CreateDoc(c.data) }
      [] c.mutation = "patch"  ->
            { IF d._id = c.existing THEN PatchDoc(d, c.data) ELSE d : d \in docs }
      [] c.mutation = "delete" -> { d \in docs : d._id # c.existing }
      [] OTHER                 -> docs

\* ------------------------------------------------------------ single-entity sync

NoResponse == [success |-> FALSE, message |-> "none"]

\* a call before it starts (the template of the call records)
IdleCall ==
    [ st |-> "idle", kind |-> "Product", id |-> 0, op |-> "update", translated |-> FALSE,
      cols |-> {}, existing |-> NoDoc, pendParent |-> FALSE, pendColl |-> FALSE,
      parentRef |-> NoDoc, collRefs |-> {}, mutation |-> "none", data |-> NoData,
      swallowed |-> FALSE, outcome |-> "pending", response |-> NoResponse,
      parentReq |-> FALSE, found |-> "n/a", lookups |-> 0, mutations |-> 0 ]

\* syncMethod(jobData): the entrypoint runs up to its first await (a catalog query)
NewCall(k, id, op) == [ IdleCall EXCEPT !.st = "catalog", !.kind = k, !.id = id, !.op = op ]

\* try { ... return {success: true} } catch (error) { return {success: false, message} }
\* of syncProductToCms / syncVariantToCms / syncCollectionToCms
\* (the locals of the call are gone when it returns.  What stays is its history:
\* translated, whether the entity was loaded with a translation in the default
\* language; swallowed; found, what the lookup of the existing document gave,
\* "none" | "some" | "failed", "n/a" when there was no such lookup; lookups and
\* mutations, the query and the mutating requests the store has answered)
EntrypointReturn(c, thrown) ==
    [ IdleCall EXCEPT !.st = "returned",
                      !.kind = c.kind,
                      !.id = c.id,
                      !.op = c.op,
                      !.translated = c.translated,
                      !.swallowed = c.swallowed,
                      !.found = c.found,
                      !.lookups = c.lookups,
                      !.mutations = c.mutations,
                      !.outcome = "resolved",
                      !.response = IF thrown = "none"
                                   THEN [success |-> TRUE, message |-> "synced"]
                                   ELSE [success |-> FALSE, message |-> thrown] ]

\* catch (error) { Logger.error(...); return null / [] } of the lookup helpers:
\* the call goes on, and swallowed remembers that a request of it failed
Swallow(c) == [ c EXCEPT !.swallowed = TRUE ]

\* the transform has its fields: issue the mutation, or skip when there are none
IssueMutation(c) ==
    LET data == transformData(c.kind, c.id, c.translated, EntrySlug(c.kind, c.id),
                              c.parentRef, c.collRefs)
    IN  IF data = NoData THEN EntrypointReturn(c, "none")
        ELSE [ c EXCEPT !.st = "mutate", !.data = data ]

\* createDocumentFromX / the second half of updateDocumentFromX: run the transform.
\* A variant's transform first awaits Promise.all([findParentProductDocumentId,
\* getCollectionDocumentIds]); getCollectionDocumentIds answers [] at once for no collections.
BeginTransform(c, mutation) ==
    LET m == [ c EXCEPT !.mutation = mutation ]
    IN  IF c.kind = "ProductVariant" /\ c.translated
        THEN [ m EXCEPT !.st = "refs", !.pendParent = TRUE, !.pendColl = (c.cols # {}) ]
        ELSE IssueMutation(m)

\* PublisherSync without the validation of the translations
PublisherSyncUnvalidated(c) ==
    CASE c.op = "create" -> BeginTransform(c, "create")
      [] c.op = "update" -> [ c EXCEPT !.st = "lookup" ]
      [] c.op = "delete" -> [ c EXCEPT !.st = "lookup" ]

\* syncProduct / syncProductVariant / syncCollection: validate, then switch (operationType)
PublisherSync(c) ==
    IF validateTranslations(c.translated) = "throw"
    THEN EntrypointReturn(c, "no translation")
    ELSE CASE c.op = "create" -> BeginTransform(c, "create")
           [] c.op = "update" -> [ c EXCEPT !.st = "lookup" ]
           [] c.op = "delete" -> [ c EXCEPT !.st = "lookup" ]

\* the entrypoint after its catalog queries: entity loaded (with or without a
\* translation in the default language), not found, or the catalog platform threw
AfterCatalog(c, out, cols) ==
    CASE out = "notFound" -> EntrypointReturn(c, "not found")
      [] out = "error"    -> EntrypointReturn(c, "catalog error")
      [] out = "noTranslation" -> PublisherSync([ c EXCEPT !.translated = FALSE, !.cols = cols ])
      [] out = "found"    -> PublisherSync([ c EXCEPT !.translated = TRUE, !.cols = cols ])

\* findDocumentByVendureId that never finds a document
findDocumentNever(ok, found) == NoDoc

\* findDocumentByVendureId: the first match, null for no match, and null as well
\* when the request fails (the error is logged and swallowed)
findDocumentByVendureId(ok, found) == IF ok THEN found ELSE NoDoc

\* AfterLookup in which an update that finds no document returns without creating one
AfterLookupNoFallback(c, ok, found) ==
    LET existing == findDocumentByVendureId(ok, found)
        l == [ (IF ok THEN c ELSE Swallow(c)) EXCEPT
                   !.existing = existing,
                   !.lookups = @ + 1,
                   !.found = IF ~ok THEN "failed"
                             ELSE IF existing = NoDoc THEN "none" ELSE "some" ]
    IN  CASE c.op = "update" ->
                IF existing = NoDoc THEN EntrypointReturn(l, "none")
                ELSE BeginTransform(l, "patch")
          [] c.op = "delete" ->
                IF existing = NoDoc THEN EntrypointReturn(l, "none")
                ELSE [ l EXCEPT !.st = "mutate", !.mutation = "delete" ]

\* AfterLookup in which a delete sends its mutation whether a document was found or not
AfterLookupDeleteAlways(c, ok, found) ==
    LET existing == findDocumentByVendureId(ok, found)
        l == [ (IF ok THEN c ELSE Swallow(c)) EXCEPT
                   !.existing = existing,
                   !.lookups = @ + 1,
                   !.found = IF ~ok THEN "failed"
                             ELSE IF existing = NoDoc THEN "none" ELSE "some" ]
    IN  CASE c.op = "update" ->
                IF existing = NoDoc THEN BeginTransform(l, "create")
                ELSE BeginTransform(l, "patch")
          [] c.op = "delete" -> [ l EXCEPT !.st = "mutate", !.mutation = "delete" ]

\* updateDocumentFromX / deleteDocumentFromX after the lookup of the existing document
AfterLookup(c, ok, found) ==
    LET existing == findDocumentByVendureId(ok, found)
        l == [ (IF ok THEN c ELSE Swallow(c)) EXCEPT
                   !.existing = existing,
                   !.lookups = @ + 1,
                   !.found = IF ~ok THEN "failed"
                             ELSE IF existing = NoDoc THEN "none" ELSE "some" ]
    IN  CASE c.op = "update" ->
                IF existing = NoDoc THEN BeginTransform(l, "create")
                ELSE BeginTransform(l, "patch")
          [] c.op = "delete" ->
                IF existing = NoDoc THEN EntrypointReturn(l, "none")
                ELSE [ l EXCEPT !.st = "mutate", !.mutation = "delete" ]

\* Promise.all of transformVariantData: continue once both lookups are in
AfterRefs(c) == IF c.pendParent \/ c.pendColl THEN c ELSE IssueMutation(c)

\* AfterMutation in which a refused mutation is sent a second time
AfterMutationResend(c, ok) ==
    LET m == [ c EXCEPT !.mutations = @ + 1 ]
    IN  IF ok THEN EntrypointReturn(m, "none")
        ELSE IF c.mutations = 0 THEN m
        ELSE EntrypointReturn(m, "Sanity API error")

\* makeSanityRequest for the mutation: a non-2xx answer throws, and nothing
\* catches it before the entrypoint
AfterMutation(c, ok) ==
    LET m == [ c EXCEPT !.mutations = @ + 1 ]
    IN  IF ok THEN EntrypointReturn(m, "none")
        ELSE EntrypointReturn(m, "Sanity API error")

\* ------------------------------------------------------------ jobs of the sweep

\* { entity: e, attempts: 0, maxAttempts: 5 }.  History of the job, kept beside
\* it: hist, the SyncResponse.success flags its dispatches resolved with;
\* requeues, how often it was pushed back; counted, how often it was counted
\* in successCount
NewJob(e) == [ entity |-> e, attempts |-> 0, maxAttempts |-> maxAttempts,
               lastError |-> "none", hist |-> << >>, requeues |-> 0, counted |-> 0 ]

\* what is kept of call c in slot s.  The batch callback awaits syncMethod and
\* drops the SyncResponse it resolves with: of a job's call that has returned,
\* only that it settled, how, and the error of a rejection remain (the success
\* flag is kept beside them as history).
AwaitedValue(s, c) ==
    IF s \in SweepSlots /\ c.st = "returned"
    THEN [ IdleCall EXCEPT !.st = "returned", !.kind = c.kind, !.id = c.id, !.op = c.op,
                           !.outcome = c.outcome,
                           !.response = [ success |-> c.response.success,
                                          message |-> IF c.outcome = "rejected"
                                                      THEN c.response.message ELSE "none" ] ]
    ELSE c

\* the continuation of the batch callback when the job's syncMethod call settles:
\* a rejection is caught and stored in job.lastError
JobsAfter(s, c) ==
    IF s \in SweepSlots /\ c.st = "returned"
    THEN [ jobs EXCEPT ![batch[s]].hist = Append(@, c.outcome = "resolved" /\ c.response.success),
                       ![batch[s]].lastError = IF c.outcome = "rejected"
                                               THEN c.response.message ELSE @ ]
    ELSE jobs

\* ------------------------------------------------------------ steps of a call

\* An outside trigger calls an entrypoint for one entity.
Invoke(s, k, id, op) ==
    /\ s \in DirectSlots
    /\ s \notin DOMAIN calls
    /\ calls' = [ t \in DOMAIN calls \cup {s} |->
                    IF t = s THEN NewCall(k, id, op) ELSE calls[t] ]
    /\ UNCHANGED << docs, minted, jobs, remoteCalled >>
    /\ UNCHANGED sweepVars
    /\ UNCHANGED << gateVars, compVars >>

\* The catalog answers the entrypoint's queries.
CatalogStep(s, out, cols) ==
    /\ s \in DOMAIN calls
    /\ calls[s].st = "catalog"
    /\ cols # {} => calls[s].kind = "ProductVariant" /\ out \in {"found", "noTranslation"}
    /\ LET c == AfterCatalog(calls[s], out, cols)
       IN  /\ calls' = [ calls EXCEPT ![s] = AwaitedValue(s, c) ]
           /\ jobs' = JobsAfter(s, c)
    /\ UNCHANGED << docs, minted, remoteCalled >>
    /\ UNCHANGED sweepVars
    /\ UNCHANGED << gateVars, compVars >>

\* The store answers the lookup of the existing document.
LookupStep(s, ok, found) ==
    /\ s \in DOMAIN calls
    /\ calls[s].st = "lookup"
    /\ LET m == Matching(DOCUMENT_TYPE(calls[s].kind), calls[s].id)
       IN  IF m = {} THEN found = NoDoc ELSE found \in { d._id : d \in m }
    /\ LET c == AfterLookup(calls[s], ok, found)
       IN  /\ calls' = [ calls EXCEPT ![s] = AwaitedValue(s, c) ]
           /\ jobs' = JobsAfter(s, c)
    /\ remoteCalled' = (remoteCalled \/ s \in SweepSlots)
    /\ UNCHANGED << docs, minted >>
    /\ UNCHANGED sweepVars
    /\ UNCHANGED << gateVars, compVars >>

\* findParentProductDocumentId: the catalog answers findOne for the parent
\* product.  Found: the query for its document is sent.  No product: null.
\* The catalog throws: the catch of the helper returns null.
ParentCatalogStep(s, out) ==
    /\ s \in DOMAIN calls
    /\ calls[s].st = "refs"
    /\ calls[s].pendParent
    /\ ~calls[s].parentReq
    /\ LET c == CASE out = "found" -> [ calls[s] EXCEPT !.parentReq = TRUE ]
                  [] out = "noProduct" -> AfterRefs([ calls[s] EXCEPT !.pendParent = FALSE ])
                  [] out = "error" -> AfterRefs([ Swallow(calls[s]) EXCEPT !.pendParent = FALSE ])
       IN  /\ calls' = [ calls EXCEPT ![s] = AwaitedValue(s, c) ]
           /\ jobs' = JobsAfter(s, c)
    /\ UNCHANGED << docs, minted, remoteCalled >>
    /\ UNCHANGED sweepVars
    /\ UNCHANGED << gateVars, compVars >>

\* findParentProductDocumentId: the store answers the query for the parent
\* product's document: its identifier, or null (no document, or a swallowed error).
ParentLookupStep(s, ok, found) ==
    /\ s \in DOMAIN calls
    /\ calls[s].st = "refs"
    /\ calls[s].parentReq
    /\ LET m == Matching(DOCUMENT_TYPE("Product"), ParentOf(calls[s].id))
       IN  IF m = {} THEN found = NoDoc ELSE found \in { d._id : d \in m }
    /\ LET c0 == IF ok THEN calls[s] ELSE Swallow(calls[s])
           c  == AfterRefs([ c0 EXCEPT !.pendParent = FALSE,
                                       !.parentReq = FALSE,
                                       !.lookups = @ + 1,
                                       !.parentRef = findDocumentByVendureId(ok, found) ])
       IN  /\ calls' = [ calls EXCEPT ![s] = AwaitedValue(s, c) ]
           /\ jobs' = JobsAfter(s, c)
    /\ remoteCalled' = (remoteCalled \/ s \in SweepSlots)
    /\ UNCHANGED << docs, minted >>
    /\ UNCHANGED sweepVars
    /\ UNCHANGED << gateVars, compVars >>

\* getCollectionDocumentIds settles: the identifiers of the documents of the
\* variant's collections, or [] on a swallowed error.
CollLookupStep(s, ok) ==
    /\ s \in DOMAIN calls
    /\ calls[s].st = "refs"
    /\ calls[s].pendColl
    /\ LET ids == { d._id : d \in { x \in docs : /\ x._type = DOCUMENT_TYPE("Collection")
                                                  /\ x.vendureId \in calls[s].cols } }
           c0  == IF ok THEN calls[s] ELSE Swallow(calls[s])
           c   == AfterRefs([ c0 EXCEPT !.pendColl = FALSE,
                                        !.lookups = @ + 1,
                                        !.collRefs = IF ok THEN ids ELSE {} ])
       IN  /\ calls' = [ calls EXCEPT ![s] = AwaitedValue(s, c) ]
           /\ jobs' = JobsAfter(s, c)
    /\ remoteCalled' = (remoteCalled \/ s \in SweepSlots)
    /\ UNCHANGED << docs, minted >>
    /\ UNCHANGED sweepVars
    /\ UNCHANGED << gateVars, compVars >>

\* The store answers the mutation.
MutateStep(s, ok) ==
    /\ s \in DOMAIN calls
    /\ calls[s].st = "mutate"
    /\ ok => RemoteCanApply(calls[s])
    /\ LET c == AfterMutation(calls[s], ok)
       IN  /\ calls' = [ calls EXCEPT ![s] = AwaitedValue(s, c) ]
           /\ jobs' = JobsAfter(s, c)
    /\ docs' = IF ok THEN ApplyMutation(calls[s]) ELSE docs
    /\ minted' = IF ok /\ calls[s].mutation = "create"
                 THEN minted \cup { FreshId(calls[s].data) } ELSE minted
    /\ remoteCalled' = (remoteCalled \/ s \in SweepSlots)
    /\ UNCHANGED sweepVars
    /\ UNCHANGED << gateVars, compVars >>

\* ------------------------------------------------------------ bulk sweep

NoResult == [ returned |-> FALSE ]

\* EmptySummary with the empty sweep reported as a failure
EmptySummaryFailing ==
    [ success |-> FALSE, totalEntities |-> 0, successCount |-> 0, errorCount |-> 1,
      errors |-> << [ entityId |-> -1, error |-> "no entities", attempts |-> 1 ] >> ]

\* return { success: true, totalEntities: 0, successCount: 0, errorCount: 0, errors: [] }
EmptySummary ==
    [ success |-> TRUE, totalEntities |-> 0, successCount |-> 0, errorCount |-> 0,
      errors |-> << >> ]

\* return { success: errorCount === 0, totalEntities: total, successCount, errorCount, errors }
FinalSummary(tot, sc, ec, errs) ==
    [ success |-> (ec = 0), totalEntities |-> tot, successCount |-> sc, errorCount |-> ec,
      errors |-> errs ]

\* CatchSummary with the synthetic entry left uncounted
CatchSummaryUncounted(sc, ec, errs, msg) ==
    [ success |-> FALSE, totalEntities |-> 0, successCount |-> sc, errorCount |-> ec,
      errors |-> errs \o << [ entityId |-> -1, error |-> msg, attempts |-> 1 ] >> ]

\* the catch of the sweep: one synthetic entry is added to the errors
CatchSummary(sc, ec, errs, msg) ==
    [ success |-> FALSE, totalEntities |-> 0, successCount |-> sc, errorCount |-> ec + 1,
      errors |-> errs \o << [ entityId |-> -1, error |-> msg, attempts |-> 1 ] >> ]

\* errors.map(e => ({ <kind>Id: e.entityId, error: e.error, attempts: e.attempts }))
MapErrors(k, errs) ==
    [ i \in 1..Len(errs) |->
        CASE k = "Product" ->
               [ productId |-> errs[i].entityId, error |-> errs[i].error,
                 attempts |-> errs[i].attempts ]
          [] k = "ProductVariant" ->
               [ productVariantId |-> errs[i].entityId, error |-> errs[i].error,
                 attempts |-> errs[i].attempts ]
          [] k = "Collection" ->
               [ collectionId |-> errs[i].entityId, error |-> errs[i].error,
                 attempts |-> errs[i].attempts ] ]

\* syncAllProductsToCms / syncAllProductVariantsToCms / syncAllCollectionsToCms:
\* what the bulk entrypoint makes of the generic summary r
BulkSummary(k, r) ==
    CASE k = "Product" ->
           [ returned |-> TRUE, success |-> r.success, totalProducts |-> r.totalEntities,
             successCount |-> r.successCount, errorCount |-> r.errorCount,
             errors |-> MapErrors(k, r.errors) ]
      [] k = "ProductVariant" ->
           [ returned |-> TRUE, success |-> r.success, totalProductVariants |-> r.totalEntities,
             successCount |-> r.successCount, errorCount |-> r.errorCount,
             errors |-> MapErrors(k, r.errors) ]
      [] k = "Collection" ->
           [ returned |-> TRUE, success |-> r.success, totalCollections |-> r.totalEntities,
             successCount |-> r.successCount, errorCount |-> r.errorCount,
             errors |-> MapErrors(k, r.errors) ]

\* BatchCallback that looks at the SyncResponse: success only when the sync succeeded
BatchCallbackChecked(j, c) ==
    [ job |-> j, success |-> (c.outcome = "resolved" /\ c.response.success),
      error |-> IF c.outcome = "resolved" THEN "none" ELSE c.response.message ]

\* the batch callback's value for the job at slot s: { job, success: true } when
\* syncMethod resolved (whatever SyncResponse it resolved with), and
\* { job, success: false, error } when it rejected
BatchCallback(j, c) ==
    [ job |-> j, success |-> (c.outcome = "resolved"),
      error |-> IF c.outcome = "resolved" THEN "none" ELSE c.response.message ]

\* SettleOne that pushes every job back while it has attempts left, successful or not
SettleOneRequeueAll(acc, r) ==
    IF acc.jobs[r.job].attempts < acc.jobs[r.job].maxAttempts
    THEN [ acc EXCEPT !.queue = Append(@, r.job), !.jobs[r.job].requeues = @ + 1 ]
    ELSE [ acc EXCEPT !.successCount = @ + 1, !.processed = @ + 1,
                      !.jobs[r.job].counted = @ + 1 ]

\* SettleOne that counts a success without adding it to processed
SettleOneUnprocessed(acc, r) ==
    IF r.success
    THEN [ acc EXCEPT !.successCount = @ + 1, !.jobs[r.job].counted = @ + 1 ]
    ELSE IF acc.jobs[r.job].attempts < acc.jobs[r.job].maxAttempts
         THEN [ acc EXCEPT !.queue = Append(@, r.job), !.jobs[r.job].requeues = @ + 1 ]
         ELSE [ acc EXCEPT !.errorCount = @ + 1,
                           !.processed = @ + 1,
                           !.errors = Append(@,
                               [ entityId |-> acc.jobs[r.job].entity,
                                 error |-> << "Failed after", acc.jobs[r.job].maxAttempts,
                                              "attempts. Last error:",
                                              acc.jobs[r.job].lastError >>,
                                 attempts |-> acc.jobs[r.job].attempts ]) ]

\* SettleOne that drops the result
SettleOneDrop(acc, r) == acc

\* body of `for (const r of results)` for one fulfilled result r
SettleOne(acc, r) ==
    IF r.success
    THEN [ acc EXCEPT !.successCount = @ + 1, !.processed = @ + 1,
                      !.jobs[r.job].counted = @ + 1 ]
    ELSE IF acc.jobs[r.job].attempts < acc.jobs[r.job].maxAttempts
         THEN [ acc EXCEPT !.queue = Append(@, r.job), !.jobs[r.job].requeues = @ + 1 ]
         ELSE [ acc EXCEPT !.errorCount = @ + 1,
                           !.processed = @ + 1,
                           !.errors = Append(@,
                               [ entityId |-> acc.jobs[r.job].entity,
                                 error |-> << "Failed after", acc.jobs[r.job].maxAttempts,
                                              "attempts. Last error:",
                                              acc.jobs[r.job].lastError >>,
                                 attempts |-> acc.jobs[r.job].attempts ]) ]

RECURSIVE SettleAll(_, _, _)
SettleAll(acc, results, i) ==
    IF i > Len(results) THEN acc
    ELSE SettleAll(SettleOne(acc, results[i]), results, i + 1)

\* SpliceHead that takes the whole queue
SpliceAll(q) == q

\* queue.splice(0, BATCH): the jobs removed
SpliceHead(q) == SubSeq(q, 1, IF Len(q) < BATCH THEN Len(q) ELSE BATCH)
\* queue.splice(0, BATCH): what stays in the queue
SpliceRest(q) == SubSeq(q, (IF Len(q) < BATCH THEN Len(q) ELSE BATCH) + 1, Len(q))

\* syncAllEntitiesToCmsGeneric starts for kind k and awaits the load.
BeginSweep(k) ==
    /\ pc' = "load"
    /\ kind' = k
    /\ successCount' = 0
    /\ errorCount' = 0
    /\ processed' = 0
    /\ total' = 0
    /\ errors' = << >>
    /\ jobs' = << >>
    /\ queue' = << >>
    /\ batch' = << >>
    /\ result' = NoResult
    /\ loadOutcome' = "none"
    /\ waves' = << >>
    /\ dispatched' = 0
    /\ remoteCalled' = FALSE
    /\ UNCHANGED << docs, minted, calls >>
    /\ UNCHANGED gateVars

\* A bulk entrypoint is called by an outside trigger.
StartSweep(k) ==
    /\ pc = "idle"
    /\ stage = 0
    /\ BeginSweep(k)
    /\ UNCHANGED compVars

\* The load returns n entities, ordered by id; none: the zero summary is returned.
LoadEntities(n) ==
    /\ pc = "load"
    /\ loadOutcome' = "ok"
    /\ total' = n
    /\ IF n = 0
       THEN /\ result' = BulkSummary(kind, EmptySummary)
            /\ pc' = "done"
            /\ UNCHANGED << jobs, queue >>
       ELSE /\ jobs' = [ i \in 1..n |-> NewJob(i) ]
            /\ queue' = [ i \in 1..n |-> i ]
            /\ pc' = "loop"
            /\ UNCHANGED result
    /\ UNCHANGED << gateVars, compVars >>
    /\ UNCHANGED << docs, minted, calls, kind, batch, successCount, errorCount, processed,
                    errors, waves, dispatched, remoteCalled >>

\* The load throws: the catch of the sweep returns the failure summary.
LoadThrows ==
    /\ pc = "load"
    /\ loadOutcome' = "threw"
    /\ result' = BulkSummary(kind, CatchSummary(successCount, errorCount, errors, "load error"))
    /\ pc' = "done"
    /\ UNCHANGED << gateVars, compVars >>
    /\ UNCHANGED << docs, minted, calls, kind, jobs, queue, batch, total, successCount,
                    errorCount, processed, errors, waves, dispatched, remoteCalled >>

\* while (queue.length > 0): splice a batch, and batch.map starts every job's
\* callback: job.attempts++ and the syncMethod call, up to its first await.
StartWave ==
    /\ pc = "loop"
    /\ queue # << >>
    /\ LET b == SpliceHead(queue)
       IN  /\ batch' = b
           /\ queue' = SpliceRest(queue)
           /\ jobs' = [ j \in DOMAIN jobs |->
                          IF \E i \in 1..Len(b) : b[i] = j
                          THEN [ jobs[j] EXCEPT !.attempts = @ + 1 ] ELSE jobs[j] ]
           /\ calls' = [ s \in DOMAIN calls \cup (1..Len(b)) |->
                           IF s <= Len(b) THEN NewCall(kind, jobs[b[s]].entity, "update")
                           ELSE calls[s] ]
           /\ dispatched' = dispatched + Len(b)
           /\ waves' = Append(waves, Len(b))
    /\ pc' = "wave"
    /\ UNCHANGED << gateVars, compVars >>
    /\ UNCHANGED << docs, minted, kind, total, successCount, errorCount, processed, errors,
                    result, loadOutcome, remoteCalled >>

\* Promise.allSettled resolves: the results are processed in batch order.
SettleWave ==
    /\ pc = "wave"
    /\ \A s \in 1..Len(batch) : calls[s].st = "returned"
    /\ LET results == [ s \in 1..Len(batch) |-> BatchCallback(batch[s], calls[s]) ]
           acc == SettleAll([ queue |-> queue, successCount |-> successCount,
                              errorCount |-> errorCount, processed |-> processed,
                              errors |-> errors, jobs |-> jobs ], results, 1)
       IN  /\ queue' = acc.queue
           /\ successCount' = acc.successCount
           /\ errorCount' = acc.errorCount
           /\ processed' = acc.processed
           /\ errors' = acc.errors
           /\ jobs' = acc.jobs
    /\ calls' = [ s \in DOMAIN calls \ (1..Len(batch)) |-> calls[s] ]
    /\ pc' = "loop"
    /\ UNCHANGED << gateVars, compVars >>
    /\ UNCHANGED << docs, minted, kind, batch, total, result, loadOutcome, waves, dispatched,
                    remoteCalled >>

\* The queue is empty: the summary is returned.
Finish ==
    /\ pc = "loop"
    /\ queue = << >>
    /\ result' = BulkSummary(kind, FinalSummary(total, successCount, errorCount, errors))
    /\ pc' = "done"
    /\ UNCHANGED << gateVars, compVars >>
    /\ UNCHANGED << docs, minted, calls, kind, jobs, queue, batch, total, successCount,
                    errorCount, processed, errors, loadOutcome, waves, dispatched,
                    remoteCalled >>

\* The bulk entrypoint that has returned is called again by its outside
\* trigger: the same sweep runs a second time.  The summary of the first run
\* is kept in summaries, with the store as the first run left it.
SweepAgain ==
    /\ pc = "done"
    /\ stage = 0
    /\ loadOutcome = "ok"
    /\ summaries = << >>
    /\ summaries' = << [ kind |-> kind, success |-> result.success, docs |-> docs ] >>
    /\ UNCHANGED stage
    /\ BeginSweep(kind)

\* ------------------------------------------------------------ composite sweep

\* CompositeOrder with the collection sweep before the variant sweep
CompositeOrderCollectionsFirst == << "Product", "Collection", "ProductVariant" >>

\* CompositeOrder with the variant sweep before the product sweep
CompositeOrderVariantsFirst == << "ProductVariant", "Product", "Collection" >>

\* await syncAllProductsToCms(); await syncAllProductVariantsToCms();
\* await syncAllCollectionsToCms();
CompositeOrder == << "Product", "ProductVariant", "Collection" >>

\* NextStage that gives up after a sweep that returned success false
NextStageUnlessFailed(i, summary) == IF summary.success THEN i + 1 ELSE 4

\* the statement of syncAllEntityTypes that follows the i-th await, whatever
\* summary the awaited sweep returned
NextStage(i, summary) == i + 1

\* syncAllEntityTypes is called: it calls syncAllProductsToCms and awaits it.
StartComposite ==
    /\ pc = "idle"
    /\ stage = 0
    /\ stage' = 1
    /\ summaries' = << >>
    /\ BeginSweep(CompositeOrder[1])

\* The sweep awaited returns: the next sweep is called, or, after the last,
\* syncAllEntityTypes returns.
ContinueComposite ==
    /\ stage \in 1..3
    /\ pc = "done"
    /\ summaries' = Append(summaries, [ kind |-> kind, success |-> result.success ])
    /\ stage' = NextStage(stage, result)
    /\ IF stage' \in 1..3
       THEN BeginSweep(CompositeOrder[stage'])
       ELSE /\ UNCHANGED << docs, minted, calls, jobs, remoteCalled >>
            /\ UNCHANGED sweepVars
            /\ UNCHANGED gateVars

\* ------------------------------------------------------------ throttle gate

Callers == 1..MaxCallers

\* a makeSanityRequest call: st "sleep" (in the setTimeout of enforceRateLimit)
\* or "sent" (fetch called); wake, when its timer is due; at, when its request
\* was sent; seen, lastRequestTime as it read it on entering the gate; slept,
\* whether it waited
IdleReq == [ st |-> "idle", wake |-> 0, at |-> 0, seen |-> 0, slept |-> FALSE ]

\* WaitFor that never waits
WaitNever(t, last) == 0

\* const wait = Math.max(0, this.rateLimitDelay - (now - this.lastRequestTime))
WaitFor(t, last) ==
    IF rateLimitDelay - (t - last) > 0 THEN rateLimitDelay - (t - last) ELSE 0

\* makeSanityRequest is called: enforceRateLimit reads the clock and either
\* starts its timer or, with nothing to wait for, sets lastRequestTime and
\* returns, and the request is sent.
GateEnter(p) ==
    /\ p \notin DOMAIN reqs
    /\ LET wait == WaitFor(now, lastRequestTime)
           r == IF wait > 0
                THEN [ IdleReq EXCEPT !.st = "sleep", !.wake = now + wait,
                                      !.seen = lastRequestTime, !.slept = TRUE ]
                ELSE [ IdleReq EXCEPT !.st = "sent", !.at = now, !.seen = lastRequestTime ]
       IN  /\ reqs' = [ q \in DOMAIN reqs \cup {p} |-> IF q = p THEN r ELSE reqs[q] ]
           /\ lastRequestTime' = IF wait > 0 THEN lastRequestTime ELSE now
    /\ UNCHANGED << now, compVars, docs, minted, calls, jobs, remoteCalled >>
    /\ UNCHANGED sweepVars

\* The timer of a sleeping call fires, not before it is due:
\* this.lastRequestTime = Date.now(), and the request is sent.
GateWake(p) ==
    /\ p \in DOMAIN reqs
    /\ reqs[p].st = "sleep"
    /\ now >= reqs[p].wake
    /\ reqs' = [ reqs EXCEPT ![p].st = "sent", ![p].at = now ]
    /\ lastRequestTime' = now
    /\ UNCHANGED << now, compVars, docs, minted, calls, jobs, remoteCalled >>
    /\ UNCHANGED sweepVars

\* A millisecond passes.
Tick ==
    /\ now < MaxClock
    /\ now' = now + 1
    /\ UNCHANGED << lastRequestTime, reqs, compVars, docs, minted, calls, jobs, remoteCalled >>
    /\ UNCHANGED sweepVars

\* ------------------------------------------------------------ specifications

\* a document as an earlier create of entity id of kind k left it
SeedDoc(k, id) ==
    [ _id |-> << DOCUMENT_TYPE(k), id, 1 >>, _type |-> DOCUMENT_TYPE(k), vendureId |-> id, title |-> Name(k, id),
      slug |-> [current |-> EntrySlug(k, id)], vendureProduct |-> NoDoc,
      vendureCollections |-> {} ]

\* what earlier syncs may have left in the store: nothing, a product, a product
\* and a collection
SeedStores ==
    { {},
      { SeedDoc("Product", 1) },
      { SeedDoc("Product", 1), SeedDoc("Collection", 1) } }

Init ==
    /\ docs \in SeedStores
    /\ minted = { d._id : d \in docs }
    /\ calls = [ s \in {} |-> IdleCall ]
    /\ pc = "idle"
    /\ kind = "Product"
    /\ jobs = << >>
    /\ queue = << >>
    /\ batch = << >>
    /\ total = 0
    /\ successCount = 0
    /\ errorCount = 0
    /\ processed = 0
    /\ errors = << >>
    /\ result = NoResult
    /\ loadOutcome = "none"
    /\ waves = << >>
    /\ dispatched = 0
    /\ remoteCalled = FALSE
    /\ now = rateLimitDelay
    /\ lastRequestTime = 0
    /\ reqs = [ p \in {} |-> IdleReq ]
    /\ stage = 0
    /\ summaries = << >>

CatalogOutcomes == {"found", "noTranslation", "notFound", "error"}
ParentOutcomes  == {"found", "error", "noProduct"}
\* what a lookup may answer: an identifier of the store, or null
DocIds          == { d._id : d \in docs } \cup { NoDoc }

\* The store answers a mutation; it has room for MaxDocs documents.
Mutate(s, ok) ==
    /\ s \in DOMAIN calls
    /\ ok => StoreHasRoom(calls[s])
    /\ MutateStep(s, ok)

\* The bulk sweeps: one sweep at a time, of any kind, any number of times.
Next ==
    \/ \E k \in Kinds : StartSweep(k)
    \/ \E n \in 0..MaxEntities : LoadEntities(n)
    \/ LoadThrows
    \/ StartWave
    \/ \E s \in SweepSlots, out \in CatalogOutcomes, cols \in CollectionSets :
          CatalogStep(s, out, cols)
    \/ \E s \in SweepSlots, ok \in BOOLEAN, found \in DocIds : LookupStep(s, ok, found)
    \/ \E s \in SweepSlots, out \in ParentOutcomes : ParentCatalogStep(s, out)
    \/ \E s \in SweepSlots, ok \in BOOLEAN, found \in DocIds : ParentLookupStep(s, ok, found)
    \/ \E s \in SweepSlots, ok \in BOOLEAN : CollLookupStep(s, ok)
    \/ \E s \in SweepSlots, ok \in BOOLEAN : Mutate(s, ok)
    \/ SettleWave
    \/ Finish

Spec == Init /\ [][Next]_vars

\* Single-entity sync calls made by outside triggers, one after the other or
\* concurrently; a call that has returned stays in its slot with its SyncResponse.
NextCalls ==
    \/ \E s \in DirectSlots, k \in Kinds, id \in EntityIds, op \in Ops : Invoke(s, k, id, op)
    \/ \E s \in DirectSlots, out \in CatalogOutcomes, cols \in CollectionSets :
          CatalogStep(s, out, cols)
    \/ \E s \in DirectSlots, ok \in BOOLEAN, found \in DocIds : LookupStep(s, ok, found)
    \/ \E s \in DirectSlots, out \in ParentOutcomes : ParentCatalogStep(s, out)
    \/ \E s \in DirectSlots, ok \in BOOLEAN, found \in DocIds : ParentLookupStep(s, ok, found)
    \/ \E s \in DirectSlots, ok \in BOOLEAN : CollLookupStep(s, ok)
    \/ \E s \in DirectSlots, ok \in BOOLEAN : Mutate(s, ok)

SpecCalls == Init /\ [][NextCalls]_vars

\* The sweep of ScenarioTotal products into an empty store in which the store
\* rejects every mutation for product ScenarioFailing and accepts everything
\* else.  Of the wave in flight, the calls that may take their next step are
\* the first ScenarioWindow that have not returned.
ScenarioActive ==
    { s \in DOMAIN calls :
        /\ calls[s].st # "returned"
        /\ Cardinality({ t \in 1..(s - 1) : calls[t].st # "returned" }) < ScenarioWindow }

ScenarioAccepts(c) == c.id # ScenarioFailing

InitScenario == Init /\ docs = {}

NextScenario ==
    \/ StartSweep("Product")
    \/ LoadEntities(ScenarioTotal)
    \/ StartWave
    \/ \E s \in ScenarioActive : CatalogStep(s, "found", {})
    \/ \E s \in ScenarioActive, found \in DocIds : LookupStep(s, TRUE, found)
    \/ \E s \in ScenarioActive : MutateStep(s, ScenarioAccepts(calls[s]))
    \/ SettleWave
    \/ Finish

SpecScenario == InitScenario /\ [][NextScenario]_vars

\* A full wave of variants, each a member of collection 1, swept into an empty
\* store that accepts everything.  The calls of the wave advance round by
\* round: the answers of one round arrive in any order, and before the next
\* round's, and the store answers the query for the collections of a variant
\* after the query for its parent.  Rank(c) is the number of answers call c
\* has received.
Rank(c) ==
    CASE c.st = "catalog"  -> 0
      [] c.st = "lookup"   -> 1
      [] c.st = "refs"     -> 2 + (IF c.parentReq \/ ~c.pendParent THEN 1 ELSE 0)
                                + (IF ~c.pendParent THEN 1 ELSE 0)
                                + (IF ~c.pendColl THEN 1 ELSE 0)
      [] c.st = "mutate"   -> 5
      [] c.st = "returned" -> 6

WaveTurn == { s \in DOMAIN calls : \A t \in DOMAIN calls : Rank(calls[s]) <= Rank(calls[t]) }

NextVariantWave ==
    \/ StartSweep("ProductVariant")
    \/ LoadEntities(BATCH)
    \/ StartWave
    \/ \E s \in WaveTurn : CatalogStep(s, "found", {1})
    \/ \E s \in WaveTurn, found \in DocIds : LookupStep(s, TRUE, found)
    \/ \E s \in WaveTurn : ParentCatalogStep(s, "found")
    \/ \E s \in WaveTurn, found \in DocIds : ParentLookupStep(s, TRUE, found)
    \/ \E s \in { t \in WaveTurn : ~calls[t].pendParent } : CollLookupStep(s, TRUE)
    \/ \E s \in WaveTurn : MutateStep(s, TRUE)
    \/ SettleWave
    \/ Finish

SpecVariantWave == InitScenario /\ [][NextVariantWave]_vars

\* syncAllEntityTypes: the three sweeps, the catalog and the store answering
\* each of them as they please.
NextComposite ==
    \/ StartComposite
    \/ ContinueComposite
    \/ \E n \in 0..MaxEntities : LoadEntities(n)
    \/ LoadThrows
    \/ StartWave
    \/ \E s \in SweepSlots, out \in CatalogOutcomes, cols \in CollectionSets :
          CatalogStep(s, out, cols)
    \/ \E s \in SweepSlots, ok \in BOOLEAN, found \in DocIds : LookupStep(s, ok, found)
    \/ \E s \in SweepSlots, out \in ParentOutcomes : ParentCatalogStep(s, out)
    \/ \E s \in SweepSlots, ok \in BOOLEAN, found \in DocIds : ParentLookupStep(s, ok, found)
    \/ \E s \in SweepSlots, ok \in BOOLEAN : CollLookupStep(s, ok)
    \/ \E s \in SweepSlots, ok \in BOOLEAN : Mutate(s, ok)
    \/ SettleWave
    \/ Finish

SpecComposite == InitScenario /\ [][NextComposite]_vars

\* the calls of the sweep in progress
SweepCalls == DOMAIN calls \cap SweepSlots

\* syncAllEntityTypes over the unchanged catalog, every entity translated,
\* every catalog query and every remote request answered without error.
NextCompositeClean ==
    \/ StartComposite
    \/ ContinueComposite
    \/ LoadEntities(CatalogCount(kind))
    \/ StartWave
    \/ \E s \in SweepCalls :
          CatalogStep(s, "found", CollectionsArg(calls[s].kind, calls[s].id))
    \/ \E s \in SweepCalls, found \in DocIds : LookupStep(s, TRUE, found)
    \/ \E s \in SweepCalls : ParentCatalogStep(s, "found")
    \/ \E s \in SweepCalls, found \in DocIds : ParentLookupStep(s, TRUE, found)
    \/ \E s \in SweepCalls : CollLookupStep(s, TRUE)
    \/ \E s \in SweepCalls : MutateStep(s, TRUE)
    \/ SettleWave
    \/ Finish

SpecCompositeClean == Init /\ [][NextCompositeClean]_vars

\* A bulk sweep of any kind run twice over the unchanged catalog, every entity
\* translated, every catalog query and every remote request answered without
\* error, from any of the seeded stores.
NextResweep ==
    \/ \E k \in Kinds : StartSweep(k)
    \/ SweepAgain
    \/ LoadEntities(CatalogCount(kind))
    \/ StartWave
    \/ \E s \in SweepCalls :
          CatalogStep(s, "found", CollectionsArg(calls[s].kind, calls[s].id))
    \/ \E s \in SweepCalls, found \in DocIds : LookupStep(s, TRUE, found)
    \/ \E s \in SweepCalls : ParentCatalogStep(s, "found")
    \/ \E s \in SweepCalls, found \in DocIds : ParentLookupStep(s, TRUE, found)
    \/ \E s \in SweepCalls : CollLookupStep(s, TRUE)
    \/ \E s \in SweepCalls : MutateStep(s, TRUE)
    \/ SettleWave
    \/ Finish

SpecResweep == Init /\ [][NextResweep]_vars

\* makeSanityRequest calls arriving at the gate at any times.
NextThrottle ==
    \/ \E p \in Callers : GateEnter(p)
    \/ \E p \in Callers : GateWake(p)
    \/ Tick

SpecThrottle == InitScenario /\ [][NextThrottle]_vars

\* The sweeps under weak fairness: every call that is awaited settles and the
\* event loop runs every continuation that is ready.
SpecFair == Spec /\ WF_vars(Next)

\* ------------------------------------------------------------ properties

\* the sweep loaded its entities and has returned
SweepReturned == pc = "done" /\ loadOutcome = "ok"

\* job j is one of the wave in flight
InWave(j) == pc = "wave" /\ \E s \in 1..Len(batch) : batch[s] = j

\* job j waits in the queue
InQueue(j) == \E i \in 1..Len(queue) : queue[i] = j

\* every dispatch of job j that has settled ended in a failed sync
AlwaysFailed(j) == jobs[j].hist # << >> /\ \A i \in 1..Len(jobs[j].hist) : ~jobs[j].hist[i]

\* the sync of job j has succeeded
Succeeded(j) == \E i \in 1..Len(jobs[j].hist) : jobs[j].hist[i]

\* the attempt on which the sync of job j first succeeded
FirstSuccess(j) == CHOOSE k \in 1..Len(jobs[j].hist) :
                       jobs[j].hist[k] /\ \A i \in 1..(k - 1) : ~jobs[j].hist[i]

\* the entries of the error list for job j
ErrorEntries(j) == { i \in 1..Len(errors) : errors[i].entityId = jobs[j].entity }

\* total<Kind> of the summary a bulk entrypoint returned
TotalOf(r) ==
    CASE kind = "Product"        -> r.totalProducts
      [] kind = "ProductVariant" -> r.totalProductVariants
      [] kind = "Collection"     -> r.totalCollections

\* <kind>Id of an entry of the returned error list
EntityIdOf(e) ==
    CASE kind = "Product"        -> e.productId
      [] kind = "ProductVariant" -> e.productVariantId
      [] kind = "Collection"     -> e.collectionId

\* C1: when the sweep has returned, a job whose single-entity sync failed on
\* every attempt was requeued 4 times, dispatched 5 times, and has exactly one
\* entry in the error list, with attempts = 5.
C1_FailingJobExhaustsAttempts ==
    SweepReturned =>
        \A j \in DOMAIN jobs :
            AlwaysFailed(j) =>
                /\ jobs[j].requeues = maxAttempts - 1
                /\ Len(jobs[j].hist) = maxAttempts
                /\ Cardinality(ErrorEntries(j)) = 1
                /\ \A i \in ErrorEntries(j) : errors[i].attempts = maxAttempts

\* C2: attempts of a job equals the number of waves it took part in and never
\* exceeds 5; and after a wave has settled, a job of that wave is back in the
\* queue if and only if its sync failed in the wave and attempts < 5.
C2_AttemptsAndRequeue ==
    /\ \A j \in DOMAIN jobs :
          /\ jobs[j].attempts <= maxAttempts
          /\ jobs[j].attempts =
                Len(jobs[j].hist)
                + (IF \E s \in 1..Len(batch) :
                         pc = "wave" /\ batch[s] = j /\ calls[s].st # "returned"
                   THEN 1 ELSE 0)
    /\ pc = "loop" =>
          \A s \in 1..Len(batch) :
              InQueue(batch[s]) <=>
                  /\ ~jobs[batch[s]].hist[Len(jobs[batch[s]].hist)]
                  /\ jobs[batch[s]].attempts < maxAttempts

\* C3: a job whose sync first succeeded on attempt k (k <= 5) has not been
\* dispatched after attempt k, is counted exactly once in successCount as soon
\* as its wave has settled (and never more than once), is not put back in the
\* queue, and has no entry in the error list.
C3_SuccessCountedOnce ==
    \A j \in DOMAIN jobs :
        Succeeded(j) =>
            /\ FirstSuccess(j) <= maxAttempts
            /\ Len(jobs[j].hist) = FirstSuccess(j)
            /\ jobs[j].attempts = FirstSuccess(j)
            /\ jobs[j].counted = (IF InWave(j) THEN 0 ELSE 1)
            /\ ~InQueue(j)
            /\ ErrorEntries(j) = {}
            /\ successCount >= 1 \/ InWave(j)

\* C3 (witness): a sweep has returned in which a job's sync succeeded and the
\* job was counted in successCount.
C3_Witness ==
    /\ SweepReturned
    /\ \E j \in DOMAIN jobs :
          Succeeded(j) /\ FirstSuccess(j) = 1 /\ jobs[j].counted = 1 /\ successCount >= 1

\* C4: in the sweep of 25 products of which #13 always fails remotely, the
\* first three waves have sizes 10, 10 and 5, and the sweep returns
\* totalProducts 25, successCount 24, errorCount 1, success false, with #13
\* dispatched 5 times and recorded in errors with attempts 5.
C4_Scenario25 ==
    /\ \A i \in 1..Len(waves) :
          /\ i \in {1, 2} => waves[i] = BATCH
          /\ i = 3 => waves[i] = ScenarioTotal - 2 * BATCH
    /\ pc = "done" =>
          /\ Len(waves) >= 3
          /\ result.totalProducts = ScenarioTotal
          /\ result.successCount = ScenarioTotal - 1
          /\ result.errorCount = 1
          /\ result.success = FALSE
          /\ Len(jobs[ScenarioFailing].hist) = maxAttempts
          /\ Len(result.errors) = 1
          /\ result.errors[1].productId = ScenarioFailing
          /\ result.errors[1].attempts = maxAttempts

\* C5: when the queue has become empty and the sweep returns, every job has
\* either succeeded or been dispatched exactly 5 times, and the number of
\* dispatches is at most 5 times the number of entities.
C5_EmptyQueueMeansSucceededOrExhausted ==
    SweepReturned =>
        /\ queue = << >>
        /\ \A j \in DOMAIN jobs : Succeeded(j) \/ Len(jobs[j].hist) = maxAttempts
        /\ dispatched <= maxAttempts * total

\* Every sweep returns: the loop ends whatever the syncs answer.
SweepTerminates == <>(pc = "done")

\* C6: a sweep whose load returned no entity returns success true, total 0,
\* successCount 0, errorCount 0 and no errors; it dispatched no job and made
\* no remote call.
C6_EmptySweep ==
    (pc = "done" /\ loadOutcome = "ok" /\ total = 0) =>
        /\ result.returned
        /\ result.success = TRUE
        /\ TotalOf(result) = 0
        /\ result.successCount = 0
        /\ result.errorCount = 0
        /\ result.errors = << >>
        /\ dispatched = 0
        /\ ~remoteCalled
        /\ DOMAIN calls = {}

\* C6 (witness): a sweep of variants whose load returned no entity has returned.
C6_Witness ==
    /\ pc = "done"
    /\ loadOutcome = "ok"
    /\ total = 0
    /\ kind = "ProductVariant"
    /\ result.returned

\* C7: a sweep always returns a summary; when its load threw, the summary has
\* success false, errorCount 1 and exactly one error entry, with entity id -1
\* and attempts 1, and no job was dispatched.
C7_SetupFailure ==
    /\ pc = "done" => result.returned
    /\ (pc = "done" /\ loadOutcome = "threw") =>
          /\ result.success = FALSE
          /\ TotalOf(result) = 0
          /\ result.successCount = 0
          /\ result.errorCount = 1
          /\ Len(result.errors) = 1
          /\ EntityIdOf(result.errors[1]) = -1
          /\ result.errors[1].attempts = 1
          /\ dispatched = 0
          /\ ~remoteCalled

\* C7 (witness): a sweep whose load threw has returned.
C7_Witness ==
    /\ pc = "done"
    /\ loadOutcome = "threw"
    /\ result.returned
    /\ kind = "Collection"

\* C8: an entrypoint that has returned did not throw; it returned success
\* false for every failure of the call (entity not found, catalog error,
\* missing translation, failed remote request), and success true only when
\* none occurred.
C8_EntrypointReportsEveryFailure ==
    \A s \in DOMAIN calls :
        calls[s].st = "returned" =>
            /\ calls[s].outcome = "resolved"
            /\ calls[s].response.message \in
                  {"not found", "catalog error", "no translation", "Sanity API error"}
                  => ~calls[s].response.success
            /\ calls[s].swallowed => ~calls[s].response.success
            /\ calls[s].response.success => calls[s].response.message = "synced"

\* C9: a single-entity sync during which a remote request failed, a lookup
\* query or a mutation, returns success false.
C9_TransportFailureFailsSync ==
    \A s \in DOMAIN calls :
        (/\ calls[s].st = "returned"
         /\ calls[s].swallowed \/ calls[s].response.message = "Sanity API error")
            => /\ ~calls[s].response.success
               /\ calls[s].response.message = "Sanity API error"

\* C10: at most one document of a document type has a given vendureId.
C10_UniqueVendureId ==
    \A d1, d2 \in docs :
        (d1._type = d2._type /\ d1.vendureId = d2.vendureId) => d1._id = d2._id

\* the publisher's create of the entity of call c, with the references its
\* transform resolved, at the point where it sends its mutation
CreateOf(c) ==
    IssueMutation([ NewCall(c.kind, c.id, "create") EXCEPT
                        !.translated = c.translated, !.cols = c.cols,
                        !.parentRef = c.parentRef, !.collRefs = c.collRefs,
                        !.mutation = "create" ])

\* call s is an update whose lookup answered that the entity has no document
UpdateFoundNone(s) ==
    /\ calls[s].op = "update"
    /\ calls[s].found = "none"

\* C11: an update whose lookup finds no document of the entity goes the way of
\* a create (it does not return before sending a mutation, and does not patch):
\* the request it sends is the create's, the store after it is the
\* store a create of the entity leaves from the same store (one new document
\* with the create's fields), and the call returns success.
C11_UpdateFallsBackToCreate ==
    [][ \A s \in DOMAIN calls :
          /\ (calls[s].st = "lookup" /\ calls[s].op = "update" /\ calls'[s].found = "none")
                => /\ calls'[s].st \in {"refs", "mutate"}
                   /\ calls'[s].mutation = "create"
                   /\ (calls'[s].st = "mutate" => calls'[s].data = CreateOf(calls'[s]).data)
          /\ (/\ UpdateFoundNone(s)
              /\ calls[s].st = "mutate"
              /\ calls'[s].st = "returned"
              /\ (docs' # docs \/ calls'[s].response.success))
                => /\ calls[s].mutation = "create"
                   /\ calls[s].data = CreateOf(calls[s]).data
                   /\ docs' = ApplyMutation(CreateOf(calls[s]))
                   /\ Cardinality(docs') = Cardinality(docs) + 1
                   /\ calls'[s].response.success ]_vars

\* C11 (witness): an update of a variant that found no document has returned
\* success after its one mutation, and the variant's document is in the store.
C11_Witness ==
    \E s \in DOMAIN calls :
        /\ calls[s].st = "returned"
        /\ calls[s].kind = "ProductVariant"
        /\ UpdateFoundNone(s)
        /\ calls[s].mutations = 1
        /\ calls[s].response.success
        /\ Matching(DOCUMENT_TYPE("ProductVariant"), calls[s].id) # {}

\* call s is a delete whose lookup answered that the entity has no document
DeleteFoundNone(s) ==
    /\ calls[s].op = "delete"
    /\ calls[s].found = "none"

\* C12: a delete whose lookup finds no document of the entity returns at once
\* with success true: it has sent no mutating request (its one request is the
\* lookup), and the step that receives the lookup's answer leaves the store
\* as it is.
C12_DeleteOfAbsentIsNoOp ==
    /\ [](\A s \in DOMAIN calls :
            DeleteFoundNone(s) =>
                /\ calls[s].st = "returned"
                /\ calls[s].outcome = "resolved"
                /\ calls[s].response.success
                /\ calls[s].mutations = 0
                /\ calls[s].lookups = 1)
    /\ [][ \A s \in DOMAIN calls :
              (calls[s].st = "lookup" /\ calls[s].op = "delete" /\ calls'[s].found = "none")
                  => docs' = docs /\ minted' = minted ]_vars

\* C12 (witness): the delete of a collection that has no document has returned.
C12_Witness ==
    \E s \in DOMAIN calls :
        /\ DeleteFoundNone(s)
        /\ calls[s].kind = "Collection"
        /\ calls[s].st = "returned"
        /\ calls[s].response.success
        /\ Matching(DOCUMENT_TYPE("Collection"), calls[s].id) = {}

\* the call reached the publisher (syncProduct / syncProductVariant / syncCollection)
ReachedPublisher(c) ==
    /\ c.st # "catalog"
    /\ c.response.message \notin {"not found", "catalog error"}

C14_NoTranslationNoRemoteCall ==
    /\ [](\A s \in DOMAIN calls :
            (calls[s].st # "catalog" /\ ~calls[s].translated) =>
                /\ calls[s].st = "returned"
                /\ ~calls[s].response.success
                /\ calls[s].lookups = 0
                /\ calls[s].mutations = 0)
    /\ [][ \A s \in DOMAIN calls :
              (calls[s].st = "catalog" /\ calls'[s].response.message = "no translation")
                  => /\ docs' = docs
                     /\ minted' = minted
                     /\ ~calls'[s].translated ]_vars

\* C14 (witness): the delete of a variant without translation has returned
\* "no translation" while the store holds documents.
C14_Witness ==
    \E s \in DOMAIN calls :
        /\ calls[s].st = "returned"
        /\ calls[s].kind = "ProductVariant"
        /\ calls[s].op = "delete"
        /\ calls[s].response.message = "no translation"
        /\ docs # {}

\* the calls of the sweep's jobs that have not returned
JobsInFlight == { s \in DOMAIN calls \cap SweepSlots : calls[s].st # "returned" }

\* C15: a wave dispatches at most 10 jobs; jobs are dispatched only when no
\* job of an earlier wave is in flight; and the queue changes only when no
\* job is in flight.
C15_WavesBoundedAndSequential ==
    /\ [](/\ \A i \in 1..Len(waves) : waves[i] <= BATCH
          /\ Cardinality(DOMAIN calls \cap SweepSlots) <= BATCH
          /\ DOMAIN calls \subseteq SweepSlots \cup DirectSlots
          /\ pc # "wave" => JobsInFlight = {})
    /\ [][ /\ dispatched' # dispatched =>
                /\ JobsInFlight = {}
                /\ DOMAIN calls \cap SweepSlots = {}
                /\ dispatched' - dispatched <= BATCH
           /\ queue' # queue => JobsInFlight = {} ]_vars

\* C15 (witness): the second full wave is in flight, some of its jobs settled
\* and some not, while jobs wait in the queue.
C15_Witness ==
    /\ pc = "wave"
    /\ waves = << BATCH, BATCH >>
    /\ queue # << >>
    /\ JobsInFlight # {}
    /\ \E s \in DOMAIN calls : calls[s].st = "returned"

\* how often job j has been accounted for: counted as a success, put back on
\* the queue, or recorded in the error list
Accounted(j) == jobs[j].counted + jobs[j].requeues + Cardinality(ErrorEntries(j))

\* C16: every job of a wave settles with the result of its own sync, whatever
\* its siblings did, and the wave is settled only when all of its jobs have;
\* after the wave each of its jobs has been accounted for exactly once more
\* (once per dispatch), and the counters add up.
C16_JobsSettleIndependently ==
    /\ [](/\ \A j \in DOMAIN jobs :
                /\ Accounted(j) = jobs[j].attempts - (IF InWave(j) THEN 1 ELSE 0)
                /\ ~InWave(j) => Len(jobs[j].hist) = jobs[j].attempts
          /\ pc = "wave" =>
                \A s \in 1..Len(batch) :
                    calls[s].st = "returned" =>
                        /\ Len(jobs[batch[s]].hist) = jobs[batch[s]].attempts
                        /\ jobs[batch[s]].hist[Len(jobs[batch[s]].hist)]
                               = calls[s].response.success
          /\ processed = successCount + errorCount
          /\ pc \in {"loop", "done"} => processed + Len(queue) = Len(jobs))
    /\ [][ (pc = "wave" /\ pc' = "loop") =>
              \A s \in 1..Len(batch) :
                  /\ calls[s].st = "returned"
                  /\ Accounted(batch[s])' = Accounted(batch[s]) + 1 ]_vars

\* C16 (witness): a wave of two jobs has been settled in which the sync of the
\* first job failed and the sync of the second succeeded and wrote its document.
C16_Witness ==
    /\ pc = "loop"
    /\ Len(jobs) = 2
    /\ jobs[1].hist = << FALSE >>
    /\ jobs[2].hist = << TRUE >>
    /\ Accounted(1) = 1
    /\ Accounted(2) = 1
    /\ Matching(DOCUMENT_TYPE(kind), jobs[2].entity) # {}

\* the remote requests of the sweep's jobs that have been sent and not answered
InFlightRequests ==
    { r \in (DOMAIN calls \cap SweepSlots) \X {"existing", "parent", "collections", "mutation"} :
        LET c == calls[r[1]]
        IN  \/ r[2] = "existing" /\ c.st = "lookup"
            \/ r[2] = "parent" /\ c.st = "refs" /\ c.parentReq
            \/ r[2] = "collections" /\ c.st = "refs" /\ c.pendColl
            \/ r[2] = "mutation" /\ c.st = "mutate" }

\* C17: at every moment of a sweep at most 10 remote requests are in flight.
C17_InFlightAtMostWave == Cardinality(InFlightRequests) <= BATCH

\* the requests of callers p and q were sent at least rateLimitDelay apart
Apart(p, q) ==
    \/ reqs[q].at - reqs[p].at >= rateLimitDelay
    \/ reqs[p].at - reqs[q].at >= rateLimitDelay

\* C18: a request whose call entered the gate after an earlier request had
\* been sent is sent at least rateLimitDelay after that request (seen is the
\* time the latest such request was sent).
C18_BackToBackApart ==
    \A q \in DOMAIN reqs :
        /\ reqs[q].st = "sent" =>
              /\ reqs[q].at >= reqs[q].seen + rateLimitDelay
              /\ \A p \in DOMAIN reqs :
                    (reqs[p].st = "sent" /\ reqs[p].at <= reqs[q].seen) =>
                        reqs[q].at - reqs[p].at >= rateLimitDelay
        /\ reqs[q].st = "sleep" => reqs[q].wake >= reqs[q].seen + rateLimitDelay

\* C18 (witness): a call that entered the gate less than rateLimitDelay after
\* the previous request waited and was sent exactly rateLimitDelay after it.
C18_Witness ==
    \E p, q \in DOMAIN reqs :
        /\ p # q
        /\ reqs[p].st = "sent"
        /\ reqs[q].st = "sent"
        /\ reqs[q].slept
        /\ reqs[q].seen = reqs[p].at
        /\ reqs[q].at = reqs[p].at + rateLimitDelay

\* C19: any two requests sent through the gate are sent at least
\* rateLimitDelay apart.
C19_AllRequestsApart ==
    \A p, q \in DOMAIN reqs :
        (p # q /\ reqs[p].st = "sent" /\ reqs[q].st = "sent") => Apart(p, q)

\* C20: syncAllEntityTypes runs the product sweep, then the variant sweep,
\* then the collection sweep: the sweep in progress is the one of its stage,
\* the sweeps before it have returned, in that order, and jobs are dispatched
\* only for the sweep of the stage, after every earlier sweep has returned;
\* syncAllEntityTypes returns after the three, whatever they returned.
C20_CompositeInOrder ==
    /\ [](/\ stage \in 0..4
          /\ stage \in 1..3 => kind = CompositeOrder[stage] /\ Len(summaries) = stage - 1
          /\ stage = 4 => Len(summaries) = 3 /\ pc = "done" /\ JobsInFlight = {}
          /\ \A i \in 1..Len(summaries) : summaries[i].kind = CompositeOrder[i]
          /\ \A s \in DOMAIN calls \cap SweepSlots :
                stage \in 1..3 /\ calls[s].kind = CompositeOrder[stage])
    /\ [][ /\ dispatched' > dispatched =>
                stage \in 1..3 /\ kind = CompositeOrder[stage] /\ Len(summaries) = stage - 1
           /\ stage' # stage =>
                /\ stage' = stage + 1
                /\ stage > 0 => pc = "done" /\ result.returned /\ JobsInFlight = {} ]_vars

\* C20 (witness): the product sweep returned success false, the variant sweep
\* returned, and a job of the collection sweep is in flight.
C20_Witness ==
    /\ stage = 3
    /\ Len(summaries) = 2
    /\ ~summaries[1].success
    /\ pc = "wave"
    /\ JobsInFlight # {}

\* the documents of the store for the entities of kind k
DocsOf(k) == { d \in docs : d._type = DOCUMENT_TYPE(k) }

\* C21: in a composite sweep over a catalog in which every entity is
\* translated and every request succeeds, once the product sweep has returned
\* every product of the catalog has a document, no variant is synced before
\* that, and every variant document in the store refers to a document of the
\* variant's parent product.
C21_VariantsFindTheirParent ==
    /\ stage >= 2 =>
          \A p \in 1..CatalogCount("Product") : Matching(DOCUMENT_TYPE("Product"), p) # {}
    /\ \A s \in SweepCalls : calls[s].kind = "ProductVariant" => stage = 2
    /\ \A d \in DocsOf("ProductVariant") :
          /\ d.vendureProduct # NoDoc
          /\ d.vendureProduct \in
                { p._id : p \in Matching(DOCUMENT_TYPE("Product"), ParentOf(d.vendureId)) }
    /\ stage >= 3 =>
          \A v \in 1..CatalogCount("ProductVariant") :
              Matching(DOCUMENT_TYPE("ProductVariant"), v) # {}

\* C21 (witness): the composite sweep has returned from a store that was
\* empty of products, and the document of every variant refers to its parent.
C21_Witness ==
    /\ stage = 4
    /\ Cardinality(DocsOf("ProductVariant")) = CatalogCount("ProductVariant")
    /\ \A d \in DocsOf("ProductVariant") : d.vendureProduct # NoDoc
    /\ Cardinality(DocsOf("Product")) = CatalogCount("Product")

\* the variant documents a composite sweep leaves when it runs the collection
\* sweep before the variant sweep: by then every collection of the catalog
\* has its document, so the document of a variant refers to the documents of
\* all the collections of the variant
RefersToAllItsCollections(d) ==
    /\ \A c \in CollectionsOf(d.vendureId) : Matching(DOCUMENT_TYPE("Collection"), c) # {}
    /\ d.vendureCollections =
          { c._id : c \in { x \in DocsOf("Collection") :
                                x.vendureId \in CollectionsOf(d.vendureId) } }

\* C22: when the composite sweep has returned, the variant documents are
\* those that the order products, collections, variants leaves: one per
\* variant, each referring to the documents of all its collections.
C22_CollectionsPositionIncidental ==
    stage = 4 =>
        /\ Cardinality(DocsOf("ProductVariant")) = CatalogCount("ProductVariant")
        /\ \A d \in DocsOf("ProductVariant") : RefersToAllItsCollections(d)

\* the documents of the parent product of the variant of call c
ParentDocs(c) == Matching(DOCUMENT_TYPE("Product"), ParentOf(c.id))

\* C23: when the query of a variant's create or update for the document of
\* its parent product is answered, the call goes on without error; its
\* parent reference is omitted when the parent has no document and is the
\* identifier of the parent's document when it has one; and the variant's
\* document is written with that reference.
C23_ParentReferenceOmittedOrResolved ==
    [][ \A s \in DOMAIN calls :
          /\ (calls[s].st = "refs" /\ calls[s].parentReq /\ ~calls'[s].parentReq) =>
                /\ calls'[s].st \in {"refs", "mutate"}
                /\ ParentDocs(calls[s]) = {} => calls'[s].parentRef = NoDoc
                /\ ParentDocs(calls[s]) # {} =>
                      calls'[s].parentRef \in { d._id : d \in ParentDocs(calls[s]) }
                /\ calls'[s].st = "mutate" =>
                      calls'[s].data.vendureProduct = calls'[s].parentRef
          /\ (/\ calls[s].st = "mutate"
              /\ calls[s].kind = "ProductVariant"
              /\ calls[s].mutation = "create"
              /\ calls'[s].response.success) =>
                \E d \in docs' \ docs :
                    /\ d.vendureId = calls[s].id
                    /\ d.vendureProduct = calls[s].parentRef ]_vars

\* the sync of job j failed in the wave that has just run, with attempts left
FailedWithAttemptsLeft(j) ==
    /\ jobs[j].hist # << >>
    /\ ~jobs[j].hist[Len(jobs[j].hist)]
    /\ jobs[j].attempts < jobs[j].maxAttempts

\* C24: when a wave is settled, the jobs of the wave whose sync failed with
\* attempts < 5 are appended to the tail of the queue, behind every job that
\* was waiting, in the order of the wave, and nothing else is; a job is
\* dispatched again only by a later wave, which takes the head of the queue.
C24_FailedJobRequeuedAtTail ==
    [][ /\ (pc = "wave" /\ pc' = "loop") =>
              queue' = queue \o SelectSeq(batch, FailedWithAttemptsLeft)
        /\ (pc = "loop" /\ pc' = "wave") =>
              /\ batch' = SubSeq(queue, 1, Len(batch'))
              /\ queue = batch' \o queue' ]_vars

\* C25: at every wave boundary (the head of the while loop) successCount +
\* errorCount + queue.length is the number of loaded entities, processed is
\* successCount + errorCount, and the error list has errorCount entries with
\* pairwise distinct entity ids; and the summary returned after the loop has
\* successCount + errorCount = total and success exactly when errorCount = 0.
C25_CountersAddUp ==
    /\ (pc = "loop" /\ loadOutcome = "ok") =>
          /\ successCount + errorCount + Len(queue) = total
          /\ processed = successCount + errorCount
          /\ Len(errors) = errorCount
          /\ \A i, j \in 1..Len(errors) : errors[i].entityId = errors[j].entityId => i = j
    /\ SweepReturned =>
          /\ result.successCount + result.errorCount = TotalOf(result)
          /\ TotalOf(result) = total
          /\ result.successCount = successCount
          /\ result.errorCount = errorCount
          /\ Len(result.errors) = result.errorCount
          /\ result.success <=> (result.errorCount = 0)

\* C25 (witness): the first wave of the sweep of 25 has been settled: ten jobs
\* counted, fifteen waiting.
C25_Witness ==
    /\ pc = "loop"
    /\ Len(waves) = 1
    /\ successCount = BATCH
    /\ processed = BATCH
    /\ Len(queue) = ScenarioTotal - BATCH

\* C26: the sync methods of the sweep never reject, and a job goes back to
\* the queue or into the error list only when its sync method rejected; so
\* no job is requeued or recorded as an error, every job is dispatched once,
\* and a sweep whose load succeeded returns errorCount 0 and success true,
\* however many of its syncs returned success false.
C26_FailedSyncsCountAsSuccess ==
    /\ [](/\ \A s \in SweepCalls :
                calls[s].st = "returned" => calls[s].outcome = "resolved"
          /\ \A j \in DOMAIN jobs :
                /\ jobs[j].attempts <= 1
                /\ jobs[j].requeues = 0
                /\ jobs[j].lastError = "none"
                /\ ErrorEntries(j) = {}
          /\ errorCount = 0
          /\ errors = << >>
          /\ SweepReturned =>
                /\ dispatched = total
                /\ \A j \in DOMAIN jobs : jobs[j].attempts = 1 /\ jobs[j].counted = 1
                /\ result.successCount = total
                /\ result.errorCount = 0
                /\ result.success)
    /\ [][ (pc = "wave" /\ pc' = "loop") =>
              \A s \in 1..Len(batch) :
                  (\/ jobs'[batch[s]].requeues > jobs[batch[s]].requeues
                   \/ Cardinality(ErrorEntries(batch[s]))' > Cardinality(ErrorEntries(batch[s])))
                      => calls[s].outcome = "rejected" ]_vars

\* C26 (witness): a sweep of two entities has returned success true with
\* successCount 2 although both syncs returned success false.
C26_Witness ==
    /\ SweepReturned
    /\ total = 2
    /\ jobs[1].hist = << FALSE >>
    /\ jobs[2].hist = << FALSE >>
    /\ result.success
    /\ result.successCount = 2
    /\ result.errorCount = 0

\* the second run of the sweep has been started
SecondRun == stage = 0 /\ Len(summaries) = 1

\* C27: a job of a bulk sweep is an update and sends no delete, and no step
\* of a sweep removes a document; when a sweep over a translated catalog has
\* returned, every entity of its kind has exactly one document; and the
\* second run of the sweep gives out no identifier and leaves the store, at
\* every step and when it returns, exactly as the first run left it.
C27_SweepIdempotent ==
    /\ [](/\ \A s \in SweepCalls :
                calls[s].op = "update" /\ calls[s].mutation \in {"none", "create", "patch"}
          /\ SweepReturned =>
                \A e \in 1..total : Cardinality(Matching(DOCUMENT_TYPE(kind), e)) = 1
          /\ SecondRun => docs = summaries[1].docs)
    /\ [][ /\ { d._id : d \in docs } \subseteq { d._id : d \in docs' }
           /\ SecondRun => (minted' = minted /\ docs' = docs) ]_vars

\* C27 (witness): the second run of a variant sweep has returned, the store
\* holding one document per variant, one of them with a parent reference.
C27_Witness ==
    /\ SecondRun
    /\ SweepReturned
    /\ kind = "ProductVariant"
    /\ dispatched = total
    /\ Cardinality(DocsOf("ProductVariant")) = total
    /\ \E d \in DocsOf("ProductVariant") : d.vendureProduct # NoDoc
    /\ docs = summaries[1].docs

====
